---------------------------- MODULE Spec2Model ----------------------------
(***************************************************************************)
(* A model of `dep` (sighol/dep): the typed compose parser and catalog     *)
(* (src/src/dockerfile.rs), the generic compose rewriter and the           *)
(* build / push / deploy pipeline (src/src/main.rs).                       *)
(*                                                                         *)
(* Strings are sequences of byte values, so that Rust's `String` order     *)
(* (bytewise lexicographic) and `format!` (concatenation) are computed.    *)
(* YAML values are records tagged by `t`; a mapping is the sequence of its *)
(* entries in document order (serde_yaml's Mapping is insertion ordered).  *)
(***************************************************************************)
EXTENDS Integers, Sequences, FiniteSets, TLC

\* ------------------------------------------------------------------ bounds

\* The largest number of services in a manifest.
MaxServices == 2

\* --------------------------------------------------------------- strings

\* Rust's `impl Ord for String`: bytewise lexicographic, a proper prefix first.
StrLess(a, b) ==
    \E i \in 1..(Len(b)) :
        /\ \A j \in 1..(i - 1) : j <= Len(a) /\ a[j] = b[j]
        /\ \/ i = Len(a) + 1
           \/ i <= Len(a) /\ a[i] < b[i]

\* Option<T>
None == [some |-> FALSE]
Some(x) == [some |-> TRUE, v |-> x]

\* ------------------------------------------------------ YAML documents

\* serde_yaml::Value: Null, String, Number (kept as its scalar text), Mapping.
VNull == [t |-> "null"]
VStr(s) == [t |-> "str", s |-> s]
VNum(s) == [t |-> "num", s |-> s]
VMap(m) == [t |-> "map", m |-> m]

\* One entry of a mapping whose keys are field names.
KV(k, v) == [k |-> k, v |-> v]

\* Mapping::get / contains_key by field name, on the entries of a mapping.
HasKey(m, k) == \E i \in 1..Len(m) : m[i].k = k
IndexOfKey(m, k) == CHOOSE i \in 1..Len(m) : m[i].k = k
GetKey(m, k) == IF HasKey(m, k) THEN Some(m[IndexOfKey(m, k)].v) ELSE None

\* The text of a scalar: what serde_yaml hands to a String visitor for a
\* scalar of any type (deserialize_str does not look at the scalar's type).
ScalarText(v) == v.s
IsScalar(v) == v.t \in {"str", "num"}


\* ------------------------------------------- typed parser (dockerfile.rs)

\* Result<T>
Ok(x) == [ok |-> TRUE, v |-> x]
Err == [ok |-> FALSE]

\* A field of type Option<String>: absent or null is None, a scalar is
\* Some(its text), anything else fails the deserialization.
DeOptString(m, k) ==
    IF ~HasKey(m, k) THEN Ok(None)
    ELSE LET v == m[IndexOfKey(m, k)].v
         IN  IF v.t = "null" THEN Ok(None)
             ELSE IF IsScalar(v) THEN Ok(Some(ScalarText(v)))
             ELSE Err

\* struct DockerBuildAdvanced { context: String, dockerfile, target: Option<String> },
\* deserialized from the buffered content of an untagged enum: `context` is
\* required and must be a string.
DeDockerBuildAdvanced(v) ==
    IF v.t # "map" THEN Err
    ELSE IF ~HasKey(v.m, "context") THEN Err
    ELSE IF v.m[IndexOfKey(v.m, "context")].v.t # "str" THEN Err
    ELSE LET d == DeOptString(v.m, "dockerfile")
             g == DeOptString(v.m, "target")
         IN  IF d.ok /\ g.ok
             THEN Ok([variant |-> "Advanced",
                      context |-> v.m[IndexOfKey(v.m, "context")].v.s,
                      dockerfile |-> d.v, target |-> g.v])
             ELSE Err

\* An untagged enum with a catch-all variant: a value of neither shape is
\* accepted, and from_docker_file then skips the service.
DeDockerBuild_lenient(v) ==
    IF v.t = "str" THEN Ok([variant |-> "Str", s |-> v.s])
    ELSE IF DeDockerBuildAdvanced(v).ok THEN DeDockerBuildAdvanced(v)
    ELSE Ok([variant |-> "Other"])

\* #[serde(untagged)] enum DockerBuild { Str(String), Advanced(..) }: the
\* variants are tried in order; when none matches the deserialization fails
\* ("data did not match any variant of untagged enum DockerBuild").
DeDockerBuild(v) ==
    IF v.t = "str" THEN Ok([variant |-> "Str", s |-> v.s])
    ELSE DeDockerBuildAdvanced(v)

\* struct DockerService { build: Option<DockerBuild>, restart: Option<String> }
\* Unknown fields (image, ports, ...) are ignored.
DeDockerService(body) ==
    LET b == IF ~HasKey(body, "build") THEN Ok(None)
             ELSE LET v == body[IndexOfKey(body, "build")].v
                  IN  IF v.t = "null" THEN Ok(None)
                      ELSE LET r == DeDockerBuild(v)
                           IN  IF r.ok THEN Ok(Some(r.v)) ELSE Err
        r == DeOptString(body, "restart")
    IN  IF b.ok /\ r.ok THEN Ok([build |-> b.v, restart |-> r.v]) ELSE Err

\* struct DockerFile { services: HashMap<String, DockerService> }: every
\* entry is deserialized (one failure fails the document), a key is the text
\* of its scalar, and a later entry with the same key text replaces an
\* earlier one (HashMap::insert).
DeDockerFile(doc) ==
    IF ~doc.hasServices THEN Err
    ELSE IF \E i \in 1..Len(doc.services) : ~DeDockerService(doc.services[i].body).ok
    THEN Err
    ELSE LET n == Len(doc.services)
             names == {ScalarText(doc.services[i].key) : i \in 1..n}
             last(nm) == CHOOSE i \in 1..n :
                            /\ ScalarText(doc.services[i].key) = nm
                            /\ \A j \in (i + 1)..n : ScalarText(doc.services[j].key) # nm
         IN  Ok([names |-> names,
                 get |-> [nm \in names |-> DeDockerService(doc.services[last(nm)].body).v]])

\* The iteration orders of a HashMap: every arrangement of its keys.
IterationOrders(names) ==
    {o \in [1..Cardinality(names) -> names] : \A i, j \in DOMAIN o : o[i] = o[j] => i = j}

\* "unless-stopped" and "always"
S_unless_stopped == <<117, 110, 108, 101, 115, 115, 45, 115, 116, 111, 112, 112, 101, 100>>
S_always == <<97, 108, 119, 97, 121, 115>>

\* A restart check that is made for services with a build descriptor only.
RestartDiagnostic_only_built(service_name, service) ==
    IF ~service.build.some THEN <<>>
    ELSE IF ~service.restart.some
    THEN <<[service |-> service_name, kind |-> "no_restart", value |-> <<>>]>>
    ELSE LET x == service.restart.v
         IN  IF x # S_unless_stopped /\ x # S_always
             THEN <<[service |-> service_name, kind |-> "bad_restart", value |-> x]>>
             ELSE <<>>

\* from_docker_file, lines 42-51: the restart diagnostic of one service.
RestartDiagnostic(service_name, service) ==
    IF ~service.restart.some
    THEN <<[service |-> service_name, kind |-> "no_restart", value |-> <<>>]>>
    ELSE LET x == service.restart.v
         IN  IF x # S_unless_stopped /\ x # S_always
             THEN <<[service |-> service_name, kind |-> "bad_restart", value |-> x]>>
             ELSE <<>>

\* A loop body that leaves out a service whose restart policy is missing or
\* not accepted.
PushContainer_needs_restart(service_name, service) ==
    IF service.build.some /\ RestartDiagnostic(service_name, service) = <<>>
    THEN LET build_dir == service.build.v
         IN  IF build_dir.variant = "Str"
             THEN <<[name |-> service_name, build_dir |-> build_dir.s,
                     dockerfile |-> None, target |-> None]>>
             ELSE <<[name |-> service_name, build_dir |-> build_dir.context,
                     dockerfile |-> build_dir.dockerfile, target |-> build_dir.target]>>
    ELSE <<>>

\* from_docker_file, lines 52-68: what one service pushes onto `output`.
PushContainer(service_name, service) ==
    IF service.build.some
    THEN LET build_dir == service.build.v
         IN  IF build_dir.variant = "Str"
             THEN <<[name |-> service_name, build_dir |-> build_dir.s,
                     dockerfile |-> None, target |-> None]>>
             ELSE IF build_dir.variant = "Advanced"
             THEN <<[name |-> service_name, build_dir |-> build_dir.context,
                     dockerfile |-> build_dir.dockerfile, target |-> build_dir.target]>>
             ELSE <<>>
    ELSE <<>>

\* The loop of from_docker_file over the services in iteration order `ord`.
RECURSIVE LoopOutput(_, _, _)
LoopOutput(file, ord, i) ==
    IF i > Len(ord) THEN <<>>
    ELSE PushContainer(ord[i], file.get[ord[i]]) \o LoopOutput(file, ord, i + 1)

RECURSIVE LoopDiagnostics(_, _, _)
LoopDiagnostics(file, ord, i) ==
    IF i > Len(ord) THEN <<>>
    ELSE RestartDiagnostic(ord[i], file.get[ord[i]]) \o LoopDiagnostics(file, ord, i + 1)

\* Vec::sort_by_key(|k| k.name.clone()): a stable sort by name.
SortInsert(c, sorted) ==
    LET after == {i \in 1..Len(sorted) : ~StrLess(c.name, sorted[i].name)}
        k == IF after = {} THEN 0 ELSE CHOOSE i \in after : \A j \in after : j <= i
    IN  SubSeq(sorted, 1, k) \o <<c>> \o SubSeq(sorted, k + 1, Len(sorted))

\* No sort: the catalog in the iteration order of the HashMap.
SortByName_unsorted(s) == s

RECURSIVE SortByName(_)
SortByName(s) ==
    IF s = <<>> THEN <<>>
    ELSE SortInsert(s[Len(s)], SortByName(SubSeq(s, 1, Len(s) - 1)))

\* DockerContainer::from_docker_file
from_docker_file(file, ord) == SortByName(LoopOutput(file, ord, 1))

\* ---------------------------------------------- BuildContext (main.rs)

\* An image reference that takes its version from a new git_version call
\* ("w") instead of the one held in the BuildContext.
image_fresh_version(self, c) == self.registry \o <<47>> \o c.name \o <<58>> \o <<119>>

\* BuildContext::image: format!("{}/{}:{}", self.registry, c.name, self.version)
image(self, c) == self.registry \o <<47>> \o c.name \o <<58>> \o self.version

\* Mapping::insert: an existing key keeps its place and gets the new value,
\* a new key goes to the end.
MapInsert(m, k, v) ==
    IF HasKey(m, k) THEN [m EXCEPT ![IndexOfKey(m, k)] = KV(k, v)]
    ELSE Append(m, KV(k, v))

\* A removal that drops the last entry whatever the key.
MapRemove_truncate(m, k) == SubSeq(m, 1, Len(m) - 1)

\* Mapping::remove, which is IndexMap::swap_remove: the last entry takes the
\* place of the removed one.
MapRemove(m, k) ==
    IF ~HasKey(m, k) THEN m
    ELSE LET i == IndexOfKey(m, k)
             n == Len(m)
         IN  IF i = n THEN SubSeq(m, 1, n - 1)
             ELSE [SubSeq(m, 1, n - 1) EXCEPT ![i] = m[n]]

\* transform_docker_compose, lines 84-100: the loop body for one service.
\* The result is the service as left by the loop body, or a panic
\* (container[0] on an empty Vec: index out of bounds).
TransformService(self, containers, entry) ==
    IF HasKey(entry.body, "build")
    THEN IF entry.key.t = "str"
         THEN LET container == SelectSeq(containers, LAMBDA c : c.name = entry.key.s)
              IN  IF Len(container) = 0 THEN [kind |-> "panic"]
                  ELSE [kind |-> "ok",
                        entry |-> [entry EXCEPT !.body =
                            MapRemove(MapInsert(entry.body, "image",
                                                VStr(image(self, container[1]))),
                                      "build")]]
         ELSE [kind |-> "ok", entry |-> entry]
    ELSE [kind |-> "ok", entry |-> entry]

\* transform_docker_compose, lines 83-101: services.iter_mut() in document
\* order; a panic ends the loop at once.
RECURSIVE TransformLoop(_, _, _, _)
TransformLoop(self, containers, services, i) ==
    IF i > Len(services) THEN [kind |-> "ok", services |-> services]
    ELSE LET r == TransformService(self, containers, services[i])
         IN  IF r.kind = "panic" THEN [kind |-> "panic"]
             ELSE TransformLoop(self, containers, [services EXCEPT ![i] = r.entry], i + 1)

\* A rewrite that takes a document without services as one with none.
transform_docker_compose_lenient(self, containers, doc) ==
    IF ~doc.exists THEN [kind |-> "err"]
    ELSE LET r == TransformLoop(self, containers, doc.services, 1)
         IN  IF r.kind = "panic" THEN [kind |-> "panic"]
             ELSE [kind |-> "ok", doc |-> [doc EXCEPT !.services = r.services]]

\* BuildContext::transform_docker_compose: the file is read again and parsed
\* as a generic Value (a Mapping with two equal keys is rejected); the result
\* is the rewritten document, an Err, or a panic.
transform_docker_compose(self, containers, doc) ==
    IF ~doc.exists THEN [kind |-> "err"]
    ELSE IF \E i, j \in 1..Len(doc.services) : i # j /\ doc.services[i].key = doc.services[j].key
    THEN [kind |-> "err"]
    ELSE IF ~doc.hasServices THEN [kind |-> "err"]
    ELSE LET r == TransformLoop(self, containers, doc.services, 1)
         IN  IF r.kind = "panic" THEN [kind |-> "panic"]
             ELSE [kind |-> "ok", doc |-> [doc EXCEPT !.services = r.services]]

\* One argument of a command line: a literal of the source or a computed text.
Lit(s) == [lit |-> s]
Txt(s) == [txt |-> s]

\* "VERSION="
S_VERSION_EQ == <<86, 69, 82, 83, 73, 79, 78, 61>>

\* BuildContext::build: the arguments handed to `docker`.
BuildArgv(self, container) ==
    <<Lit("build"), Lit("--build-arg"), Txt(S_VERSION_EQ \o self.version)>>
    \o (IF self.pull THEN <<Lit("--pull")>> ELSE <<>>)
    \o <<Txt(container.build_dir)>>
    \o (IF container.dockerfile.some
        THEN <<Lit("-f"), Txt(container.dockerfile.v)>> ELSE <<>>)
    \o <<Lit("-t"), Txt(image(self, container))>>

\* A push of the image name without its version tag.
PushArgv_untagged(self, container) ==
    <<Lit("push"), Txt(self.registry \o <<47>> \o container.name)>>

\* push_containers: the arguments of one `docker push`.
PushArgv(self, container) == <<Lit("push"), Txt(image(self, container))>>

\* ------------------------------------------------------------ inputs

\* Service keys: the strings "1", "A", "a", "ab" and the number 1.
ServiceKeys ==
    {VStr(<<49>>), VNum(<<49>>), VStr(<<65>>), VStr(<<97>>), VStr(<<97, 98>>)}

\* build: {context: ".", dockerfile: "D", target: "t"}
AdvancedBuild ==
    VMap(<<KV("context", VStr(<<46>>)), KV("dockerfile", VStr(<<68>>)),
           KV("target", VStr(<<116>>))>>)

\* Service bodies, as the entries of the service's mapping in document order.
B_str == <<KV("build", VStr(<<46>>)), KV("restart", VStr(S_always))>>
B_both ==
    <<KV("build", VStr(<<46>>)), KV("image", VStr(<<105>>)),
      KV("restart", VStr(<<110, 111>>)), KV("ports", VStr(<<56, 48>>))>>
B_adv == <<KV("ports", VStr(<<56, 48>>)), KV("build", AdvancedBuild)>>
B_img == <<KV("image", VStr(<<105>>)), KV("restart", VStr(S_unless_stopped))>>
B_img_no == <<KV("image", VStr(<<105>>)), KV("restart", VStr(<<110, 111>>))>>
B_null == <<KV("build", VNull), KV("image", VStr(<<105>>)), KV("restart", VStr(S_always))>>
B_num == <<KV("build", VNum(<<53>>)), KV("restart", VStr(S_always))>>
B_nocontext ==
    <<KV("build", VMap(<<KV("dockerfile", VStr(<<68>>))>>)), KV("restart", VStr(S_always))>>

ServiceBodies == {B_str, B_both, B_adv, B_img, B_img_no, B_null, B_num, B_nocontext}

\* The documents with at most MaxServices services, keys pairwise distinct
\* (as YAML requires), drawn from `keys` and `bodies`.
Documents(keys, bodies) ==
    UNION {{[exists |-> TRUE, hasServices |-> TRUE, services |-> sv] :
                sv \in {f \in [1..n -> [key : keys, body : bodies]] :
                           \A i, j \in 1..n : f[i].key = f[j].key => i = j}} :
           n \in 0..MaxServices}

MissingFile == [exists |-> FALSE, hasServices |-> FALSE, services |-> <<>>]
NoServicesFile == [exists |-> TRUE, hasServices |-> FALSE, services |-> <<>>]

\* docker-compose.yaml as found in the working directory.
ManifestFiles(keys, bodies) ==
    {MissingFile, NoServicesFile} \cup Documents(keys, bodies)

\* deployment.yaml: DepConfig with name "n", server "s", registry "r", no
\* additional files, and the pre-build script given or not.
DepConfig(build) ==
    [name |-> <<110>>, server |-> <<115>>, registry |-> <<114>>,
     additional_files |-> None, build |-> build]
DepFiles ==
    {[valid |-> FALSE, config |-> DepConfig(None)],
     [valid |-> TRUE, config |-> DepConfig(None)],
     [valid |-> TRUE, config |-> DepConfig(Some(<<120>>))]}

\* The command line: the subcommand (init excepted), --no-docker, --pull.
Commands == {"Build", "Push", "Deploy", "Version", "Compose"}
Clis ==
    {c \in [command : Commands, no_docker : BOOLEAN, pull : BOOLEAN] :
        c.no_docker => c.command = "Push"}

\* What git_version can return: "v" or "w" (the state of the work tree may
\* differ between two calls).
Versions == {<<118>>, <<119>>}

\* ------------------------------------------------------------- state

VARIABLES
    manifest,       \* docker-compose.yaml
    depfile,        \* deployment.yaml
    cli,            \* the parsed command line
    containers,     \* main's `containers`, then BuildContext.containers
    build_context,  \* BuildContext (registry, version, config, pull), once built
    pc,             \* the place in main and the functions it calls
    idx,            \* the position of the running `for container in ...` loop
    log,            \* the external commands run so far, with their outcome
    stdout,         \* what was printed: the version, the rewritten manifest
    stderr,         \* the diagnostics of from_docker_file
    exit            \* "running", or how the process ended: "ok", "err", "panic"

vars == <<manifest, depfile, cli, containers, build_context, pc, idx, log,
          stdout, stderr, exit>>

inputs == <<manifest, depfile, cli>>

InitWith(files, deps, clis) ==
    /\ manifest \in files
    /\ depfile \in deps
    /\ cli \in clis
    /\ containers = <<>>
    /\ build_context = None
    /\ pc = "read_docker_compose"
    /\ idx = 0
    /\ log = <<>>
    /\ stdout = <<>>
    /\ stderr = <<>>
    /\ exit = "running"

\* `?` on an Err in main, or a return from main: the process ends.
Exit(how) == pc' = "done" /\ exit' = how

\* ------------------------------------------------------------ actions

\* main line 337: read_docker_compose (lines 283-292).
ReadDockerCompose ==
    /\ pc = "read_docker_compose"
    /\ UNCHANGED <<inputs, build_context, idx, log, stdout>>
    /\ IF ~manifest.exists \/ ~DeDockerFile(manifest).ok
       THEN Exit("err") /\ UNCHANGED <<containers, stderr>>
       ELSE LET file == DeDockerFile(manifest).v
            IN  \E ord \in IterationOrders(file.names) :
                    /\ containers' = from_docker_file(file, ord)
                    /\ stderr' = LoopDiagnostics(file, ord, 1)
                    /\ pc' = "read_dep"
                    /\ exit' = exit

\* A read_dep whose error is not propagated.
ReadDep_ignores_invalid ==
    /\ pc = "read_dep"
    /\ UNCHANGED <<inputs, containers, build_context, idx, log, stdout, stderr>>
    /\ pc' = "git_version" /\ exit' = exit

\* main line 338: read_dep (lines 294-301).
ReadDep ==
    /\ pc = "read_dep"
    /\ UNCHANGED <<inputs, containers, build_context, idx, log, stdout, stderr>>
    /\ IF depfile.valid THEN pc' = "git_version" /\ exit' = exit
       ELSE Exit("err")

\* A dispatch that does not look at --no-docker.
FirstStage_no_flag ==
    CASE cli.command = "Version" -> "version"
      [] cli.command = "Compose" -> "compose"
      [] OTHER -> "run_build_script"

\* A compose command that goes through push_files to get the manifest.
FirstStage_compose_pushes ==
    CASE cli.command = "Version" -> "version"
      [] cli.command = "Compose" -> "push_files"
      [] cli.command = "Push" /\ cli.no_docker -> "push_files"
      [] OTHER -> "run_build_script"

\* Where the `match cli.command` of main (lines 342-357) goes first.
FirstStage ==
    CASE cli.command = "Version" -> "version"
      [] cli.command = "Compose" -> "compose"
      [] cli.command = "Push" /\ cli.no_docker -> "push_files"
      [] OTHER -> "run_build_script"

\* main line 340: git_version, then BuildContext::new (lines 60-73).
NewBuildContext ==
    /\ pc = "git_version"
    /\ UNCHANGED <<inputs, containers, idx, log, stdout, stderr, exit>>
    /\ \E version \in Versions :
          build_context' = Some([registry |-> depfile.config.registry,
                                 version |-> version,
                                 config |-> depfile.config,
                                 pull |-> cli.pull])
    /\ pc' = FirstStage

\* One external command that was run: the program, its arguments, what it
\* was fed (the script on bash's stdin, the staged manifest of rsync) and
\* whether it was spawned and exited with success.
Ran(prog, argv, input, ok) == [prog |-> prog, argv |-> argv, input |-> input, ok |-> ok]

self == build_context.v

\* main lines 343-345: the version command calls git_version again and prints.
Version ==
    /\ pc = "version"
    /\ UNCHANGED <<inputs, containers, build_context, idx, log, stderr>>
    /\ \E version \in Versions :
          stdout' = Append(stdout, [what |-> "version", text |-> version])
    /\ Exit("ok")

\* main lines 351-354: the compose command prints the rewritten manifest.
Compose ==
    /\ pc = "compose"
    /\ UNCHANGED <<inputs, containers, build_context, idx, log, stderr>>
    /\ LET output == transform_docker_compose(self, containers, manifest)
       IN  IF output.kind = "ok"
           THEN /\ stdout' = Append(stdout, [what |-> "compose", doc |-> output.doc])
                /\ Exit("ok")
           ELSE /\ stdout' = stdout
                /\ Exit(output.kind)

\* push_containers, line 173: entering the loop over the containers.
EnterPushLoop ==
    IF containers = <<>> THEN pc' = "push_files" /\ idx' = 0 /\ exit' = exit
    ELSE pc' = "docker_push" /\ idx' = 1 /\ exit' = exit

\* build_all has returned Ok: back in main (line 346) or in push_containers
\* (line 172).
BuildAllReturns ==
    IF cli.command = "Build" THEN Exit("ok") /\ idx' = 0
    ELSE EnterPushLoop

\* build_all, line 130: entering the loop over the containers.
EnterBuildLoop ==
    IF containers = <<>> THEN BuildAllReturns
    ELSE pc' = "docker_build" /\ idx' = 1 /\ exit' = exit

\* A build_all that drops the result of run_build_script.
RunBuildScript_ignores_failure ==
    /\ pc = "run_build_script"
    /\ UNCHANGED <<inputs, containers, build_context, stdout, stderr>>
    /\ IF self.config.build.some
       THEN \E ok \in BOOLEAN :
               /\ log' = Append(log, Ran("bash", <<>>, self.config.build.v, ok))
               /\ EnterBuildLoop
       ELSE log' = log /\ EnterBuildLoop

\* run_build_script (lines 108-125), called first by build_all (line 128).
RunBuildScript ==
    /\ pc = "run_build_script"
    /\ UNCHANGED <<inputs, containers, build_context, stdout, stderr>>
    /\ IF self.config.build.some
       THEN \E ok \in BOOLEAN :
               /\ log' = Append(log, Ran("bash", <<>>, self.config.build.v, ok))
               /\ IF ok THEN EnterBuildLoop ELSE Exit("err") /\ idx' = idx
       ELSE log' = log /\ EnterBuildLoop

\* A build whose exit status is not looked at.
BuildFailed_ignored(ok) == FALSE

\* BuildContext::build, lines 237-240: `if !status.success() { bail!(..) }`,
\* propagated by the `?` of build_all (line 131).
BuildFailed(ok) == ~ok

\* build_all, lines 130-133: one turn of the loop, BuildContext::build
\* (lines 223-242) on the container at idx.
Build ==
    /\ pc = "docker_build"
    /\ UNCHANGED <<inputs, containers, build_context, stdout, stderr>>
    /\ \E ok \in BOOLEAN :
          /\ log' = Append(log, Ran("docker", BuildArgv(self, containers[idx]), <<>>, ok))
          /\ IF BuildFailed(ok) THEN Exit("err") /\ idx' = idx
             ELSE IF idx < Len(containers) THEN idx' = idx + 1 /\ pc' = pc /\ exit' = exit
             ELSE BuildAllReturns

\* A deploy that goes to `up` without the remote pull.
PushFilesReturns_skip_pull ==
    IF cli.command = "Deploy" THEN pc' = "ssh_up" /\ exit' = exit
    ELSE Exit("ok")

\* push_files has returned Ok: back in push (line 166), then in main
\* (line 348 or 349) or in deploy (line 140).
PushFilesReturns ==
    IF cli.command = "Deploy"
    THEN pc' = (IF self.pull THEN "ssh_pull" ELSE "ssh_up") /\ exit' = exit
    ELSE Exit("ok")

\* A push loop that does not look at the exit status of `docker push`.
Push_ignores_failure ==
    /\ pc = "docker_push"
    /\ UNCHANGED <<inputs, containers, build_context, stdout, stderr>>
    /\ \E ok \in BOOLEAN :
          /\ log' = Append(log, Ran("docker", PushArgv(self, containers[idx]), <<>>, ok))
          /\ IF idx < Len(containers) THEN idx' = idx + 1 /\ pc' = pc /\ exit' = exit
             ELSE pc' = "push_files" /\ idx' = 0 /\ exit' = exit

\* push_containers, lines 173-181: one turn of the loop, `docker push` of
\* the image of the container at idx.
Push ==
    /\ pc = "docker_push"
    /\ UNCHANGED <<inputs, containers, build_context, stdout, stderr>>
    /\ \E ok \in BOOLEAN :
          /\ log' = Append(log, Ran("docker", PushArgv(self, containers[idx]), <<>>, ok))
          /\ IF ~ok THEN Exit("err") /\ idx' = idx
             ELSE IF idx < Len(containers) THEN idx' = idx + 1 /\ pc' = pc /\ exit' = exit
             ELSE pc' = "push_files" /\ idx' = 0 /\ exit' = exit

\* push_files, lines 209-215: the arguments of rsync.
RsyncArgv(config) ==
    <<Lit("--verbose"), Lit("--archive"), Lit("-h"), Lit("--progress"), Lit("tmp_dir/")>>
    \o (IF config.additional_files.some THEN config.additional_files.v ELSE <<>>)
    \o <<Txt(config.server \o <<58>> \o config.name)>>

\* push_files (lines 190-221): the manifest is rewritten and staged, then
\* rsync sends the staging directory.
PushFiles ==
    /\ pc = "push_files"
    /\ UNCHANGED <<inputs, containers, build_context, idx, stdout, stderr>>
    /\ LET compose_txt == transform_docker_compose(self, containers, manifest)
       IN  IF compose_txt.kind # "ok"
           THEN log' = log /\ Exit(compose_txt.kind)
           ELSE \E ok \in BOOLEAN :
                   /\ log' = Append(log, Ran("rsync", RsyncArgv(self.config),
                                             compose_txt.doc, ok))
                   /\ IF ok THEN PushFilesReturns ELSE Exit("err")

\* deploy, lines 143-153: the remote command, run in the directory
\* config.name on config.server.
SshArgv(config, command) == <<Txt(config.server), [cd |-> config.name, run |-> command]>>

\* deploy, lines 142-150: `docker compose pull` on the server.
DeployPull ==
    /\ pc = "ssh_pull"
    /\ UNCHANGED <<inputs, containers, build_context, idx, stdout, stderr>>
    /\ \E ok \in BOOLEAN :
          /\ log' = Append(log, Ran("ssh", SshArgv(self.config, "docker compose pull"), <<>>, ok))
          /\ IF ok THEN pc' = "ssh_up" /\ exit' = exit ELSE Exit("err")

\* An activation whose exit status is not looked at.
DeployUp_ignores_status ==
    /\ pc = "ssh_up"
    /\ UNCHANGED <<inputs, containers, build_context, idx, stdout, stderr>>
    /\ \E ok \in BOOLEAN :
          /\ log' = Append(log, Ran("ssh", SshArgv(self.config, "docker compose up -d"), <<>>, ok))
          /\ Exit("ok")

\* deploy, lines 151-160: `docker compose up -d` on the server.
DeployUp ==
    /\ pc = "ssh_up"
    /\ UNCHANGED <<inputs, containers, build_context, idx, stdout, stderr>>
    /\ \E ok \in BOOLEAN :
          /\ log' = Append(log, Ran("ssh", SshArgv(self.config, "docker compose up -d"), <<>>, ok))
          /\ Exit(IF ok THEN "ok" ELSE "err")

\* --------------------------------------------------- specifications

\* The pipeline: every command, over manifests of buildable, non-buildable
\* and null-build services.
PipelineKeys == {VStr(<<97>>), VStr(<<97, 98>>), VNum(<<49>>)}
PipelineBodies == {B_str, B_adv, B_img, B_null}

Init == InitWith(ManifestFiles(PipelineKeys, PipelineBodies), DepFiles, Clis)

Next ==
    \/ ReadDockerCompose
    \/ ReadDep
    \/ NewBuildContext
    \/ Version
    \/ Compose
    \/ RunBuildScript
    \/ Build
    \/ Push
    \/ PushFiles
    \/ DeployPull
    \/ DeployUp

Spec == Init /\ [][Next]_vars

\* docker-compose.yaml is read twice, by read_docker_compose (line 286) and
\* by transform_docker_compose (line 76): between the two reads the file
\* may be replaced, here by a document without a services section.
EditManifest ==
    /\ pc \in {"read_dep", "git_version", "run_build_script", "docker_build",
               "docker_push", "push_files", "compose"}
    /\ manifest.exists /\ manifest.hasServices
    /\ manifest' = NoServicesFile
    /\ UNCHANGED <<depfile, cli, containers, build_context, pc, idx, log, stdout,
                   stderr, exit>>

\* The pipeline over a manifest file that may change between its two reads.
NextSnapshot ==
    \/ ReadDockerCompose
    \/ ReadDep
    \/ NewBuildContext
    \/ Version
    \/ Compose
    \/ RunBuildScript
    \/ Build
    \/ Push
    \/ PushFiles
    \/ DeployPull
    \/ DeployUp
    \/ EditManifest

SpecSnapshot == Init /\ [][NextSnapshot]_vars

\* The manifest: parsing and rewriting (the compose command) over every
\* service key and body.
InitManifest ==
    InitWith(ManifestFiles(ServiceKeys, ServiceBodies),
             {d \in DepFiles : d.valid /\ ~d.config.build.some},
             {c \in Clis : c.command = "Compose" /\ ~c.pull})

NextManifest ==
    \/ ReadDockerCompose
    \/ ReadDep
    \/ NewBuildContext
    \/ Compose

SpecManifest == InitManifest /\ [][NextManifest]_vars

\* -------------------------------------------------------- properties

\* The external commands of the log, by kind.
IsBuild(e) == e.prog = "docker" /\ e.argv[1] = Lit("build")
IsRegistryPush(e) == e.prog = "docker" /\ e.argv[1] = Lit("push")
IsRsync(e) == e.prog = "rsync"
IsSsh(e, command) == e.prog = "ssh" /\ e.argv[2].run = command
IsSshPull(e) == IsSsh(e, "docker compose pull")
IsSshUp(e) == IsSsh(e, "docker compose up -d")

\* The image reference a docker command names: the last argument of
\* `docker build ... -t image` and of `docker push image`.
ImageArg(e) == e.argv[Len(e.argv)].txt

\* The number of builds, and of registry pushes, among the first i commands
\* of the log.
BuildsUpTo(i) == Cardinality({j \in 1..i : IsBuild(log[j])})
PushesUpTo(i) == Cardinality({j \in 1..i : IsRegistryPush(log[j])})

\* The text of an image reference after its last ':' (58), its tag.
TagOf(img) ==
    IF \E i \in 1..Len(img) : img[i] = 58
    THEN LET k == CHOOSE i \in 1..Len(img) :
                     img[i] = 58 /\ \A j \in (i + 1)..Len(img) : img[j] # 58
         IN  SubSeq(img, k + 1, Len(img))
    ELSE <<>>

\* registry/name:version, written out.
ImageRef(registry, name, version) == registry \o <<47>> \o name \o <<58>> \o version

\* C1: containers are built one at a time in catalog order, and a failed
\* build is the last thing the invocation does: no later container is built,
\* no image is pushed, nothing is transferred, no remote command is run, and
\* the process ends with an error.
C1_BuildFailureShortCircuits ==
    \A i \in 1..Len(log) :
        IsBuild(log[i]) =>
            /\ BuildsUpTo(i) <= Len(containers)
            /\ ImageArg(log[i]) =
                   ImageRef(self.registry, containers[BuildsUpTo(i)].name, self.version)
            /\ ~log[i].ok =>
                  /\ i = Len(log)
                  /\ pc = "done" /\ exit = "err"
                  /\ \A j \in 1..Len(log) :
                        ~IsRegistryPush(log[j]) /\ ~IsRsync(log[j]) /\ log[j].prog # "ssh"

\* C1 witness: in a push or deploy run, a build failed while a later
\* container of the catalog was still to be built.
C1_Witness ==
    /\ cli.command \in {"Push", "Deploy"}
    /\ Len(log) > 0 /\ IsBuild(log[Len(log)]) /\ ~log[Len(log)].ok
    /\ BuildsUpTo(Len(log)) < Len(containers)

\* C5: in a `push --no-docker` run no docker command (build or push) and no
\* pre-build script is ever run; the only command is the rsync of the staged,
\* rewritten manifest, and the run ends well exactly after that rsync
\* succeeded.
C5_NoDockerOnlyTransfers ==
    (cli.command = "Push" /\ cli.no_docker) =>
        /\ \A i \in 1..Len(log) : IsRsync(log[i]) /\ i = 1
        /\ exit = "ok" => (Len(log) = 1 /\ log[1].ok)
        /\ (pc = "done" /\ build_context.some /\ exit = "err") => Len(log) = 1

\* C5 witness: a `push --no-docker` run over a catalog that is not empty
\* ended well, having run the rsync.
C5_Witness ==
    /\ cli.command = "Push" /\ cli.no_docker
    /\ containers # <<>>
    /\ exit = "ok" /\ Len(log) = 1 /\ IsRsync(log[1])

\* C6: a remote command is run only in a deploy run, after every container
\* was built and pushed with success and the rsync succeeded; the remote pull
\* is run exactly when --pull is set, right before the activation, which is
\* run only if the pull succeeded; a remote command that fails is the last
\* thing the run does and the run ends with an error.
C6_DeployOrder ==
    \A i \in 1..Len(log) :
        log[i].prog = "ssh" =>
            /\ cli.command = "Deploy"
            /\ \A j \in 1..(i - 1) : log[j].ok
            /\ \E j \in 1..(i - 1) : IsRsync(log[j])
            /\ \A k \in 1..Len(containers) :
                  /\ \E j \in 1..(i - 1) :
                        IsBuild(log[j]) /\ ImageArg(log[j]) =
                            ImageRef(self.registry, containers[k].name, self.version)
                  /\ \E j \in 1..(i - 1) :
                        IsRegistryPush(log[j]) /\ ImageArg(log[j]) =
                            ImageRef(self.registry, containers[k].name, self.version)
            /\ IsSshPull(log[i]) \/ IsSshUp(log[i])
            /\ IsSshPull(log[i]) => cli.pull /\ IsRsync(log[i - 1])
            /\ IsSshUp(log[i]) =>
                  IF cli.pull THEN IsSshPull(log[i - 1]) ELSE IsRsync(log[i - 1])
            /\ ~log[i].ok => (i = Len(log) /\ pc = "done" /\ exit = "err")
            /\ (exit = "ok") => IsSshUp(log[Len(log)])

\* C6 witness: a deploy run with --pull over a catalog that is not empty ran
\* the remote pull and then the activation.
C6_Witness ==
    /\ cli.command = "Deploy" /\ cli.pull /\ containers # <<>>
    /\ Len(log) > 1
    /\ IsSshUp(log[Len(log)]) /\ IsSshPull(log[Len(log) - 1])

\* The services of the manifest that the rewrite gives an image reference:
\* those with a build key and a string key.
Rewritten(doc) ==
    {i \in 1..Len(doc.services) :
        HasKey(doc.services[i].body, "build") /\ doc.services[i].key.t = "str"}

\* C7: every `docker build` of a run passes VERSION=<version> and tags the
\* image with <version>, every `docker push` names an image tagged <version>,
\* and every image reference written into a staged or printed manifest is
\* tagged <version>, where <version> is the one version held by the
\* BuildContext of the run.
C7_OneVersionPerRun ==
    build_context.some =>
        /\ \A i \in 1..Len(log) :
              /\ IsBuild(log[i]) =>
                    /\ log[i].argv[2] = Lit("--build-arg")
                    /\ log[i].argv[3] = Txt(<<86, 69, 82, 83, 73, 79, 78, 61>> \o self.version)
                    /\ log[i].argv[Len(log[i].argv) - 1] = Lit("-t")
                    /\ TagOf(ImageArg(log[i])) = self.version
              /\ IsRegistryPush(log[i]) => TagOf(ImageArg(log[i])) = self.version
              /\ IsRsync(log[i]) =>
                    \A k \in Rewritten(manifest) :
                        TagOf(GetKey(log[i].input.services[k].body, "image").v.s) = self.version
        /\ \A i \in 1..Len(stdout) :
              stdout[i].what = "compose" =>
                 \A k \in Rewritten(manifest) :
                    TagOf(GetKey(stdout[i].doc.services[k].body, "image").v.s) = self.version

\* C7 witness: a push run built and pushed two images and staged a manifest
\* with a rewritten image reference.
C7_Witness ==
    /\ cli.command = "Push" /\ exit = "ok"
    /\ Len(containers) >= 2
    /\ Rewritten(manifest) # {}
    /\ \E i \in 1..Len(log) : IsRsync(log[i])
    /\ PushesUpTo(Len(log)) >= 2

\* The manifest read directly: service i's key text, and the shape of its
\* build field.
ServiceName(doc, i) == doc.services[i].key.s
BuildField(doc, i) == GetKey(doc.services[i].body, "build")
HasBuildField(doc, i) == BuildField(doc, i).some
IsScalarBuild(doc, i) == HasBuildField(doc, i) /\ BuildField(doc, i).v.t = "str"
IsStructuredBuild(doc, i) ==
    /\ HasBuildField(doc, i)
    /\ BuildField(doc, i).v.t = "map"
    /\ \E j \in 1..Len(BuildField(doc, i).v.m) : BuildField(doc, i).v.m[j].k = "context"
IsBuildable(doc, i) == IsScalarBuild(doc, i) \/ IsStructuredBuild(doc, i)
IsNeitherShape(doc, i) ==
    /\ HasBuildField(doc, i)
    /\ BuildField(doc, i).v.t # "null"
    /\ ~IsBuildable(doc, i)

\* Service i is the last one of the document with its name.
IsLastOfName(doc, i) ==
    \A j \in (i + 1)..Len(doc.services) : ServiceName(doc, j) # ServiceName(doc, i)

\* No two services have the same name (a key 1 and a key "1" do).
NamesDistinct(doc) ==
    \A i, j \in 1..Len(doc.services) : ServiceName(doc, i) = ServiceName(doc, j) => i = j

\* read_docker_compose has returned Ok: main is at read_dep.
ParsedOk == pc = "read_dep"

CatalogNames == {containers[k].name : k \in 1..Len(containers)}

\* Strictly ascending, byte by byte: at the first difference the left string
\* has the smaller byte, or the left string is a proper prefix of the right.
Ascending(a, b) ==
    LET n == IF Len(a) < Len(b) THEN Len(a) ELSE Len(b)
        diff == {i \in 1..n : a[i] # b[i]}
    IN  IF diff = {} THEN Len(a) < Len(b)
        ELSE LET d == CHOOSE i \in diff : \A j \in diff : i <= j
             IN  a[d] < b[d]

CatalogStrictlySorted ==
    \A k \in 1..(Len(containers) - 1) : Ascending(containers[k].name, containers[k + 1].name)

\* C2 as stated: after a successful parse the catalog has exactly M entries,
\* M the number of services with a scalar or structured build field, one per
\* such service, strictly ascending by name.
C2_Original ==
    ParsedOk =>
        /\ Len(containers) =
               Cardinality({i \in 1..Len(manifest.services) : IsBuildable(manifest, i)})
        /\ CatalogNames =
               {ServiceName(manifest, i) :
                    i \in {j \in 1..Len(manifest.services) : IsBuildable(manifest, j)}}
        /\ CatalogStrictlySorted

\* C2, amended: after a successful parse, whatever the iteration order of the
\* service map, the catalog is strictly ascending by name and has exactly one
\* entry for each name whose last service in the document is buildable; when
\* the names of the services are pairwise distinct these are exactly the M
\* buildable services.
C2_CatalogSortedOnePerName ==
    ParsedOk =>
        LET kept == {i \in 1..Len(manifest.services) :
                        IsLastOfName(manifest, i) /\ IsBuildable(manifest, i)}
            buildable == {i \in 1..Len(manifest.services) : IsBuildable(manifest, i)}
        IN  /\ CatalogStrictlySorted
            /\ Len(containers) = Cardinality(kept)
            /\ CatalogNames = {ServiceName(manifest, i) : i \in kept}
            /\ NamesDistinct(manifest) =>
                  /\ Len(containers) = Cardinality(buildable)
                  /\ CatalogNames = {ServiceName(manifest, i) : i \in buildable}

\* C2 witness: two buildable services, written in descending order of name,
\* were parsed into a catalog of two.
C2_Witness ==
    /\ ParsedOk
    /\ Len(manifest.services) = 2
    /\ IsBuildable(manifest, 1) /\ IsBuildable(manifest, 2)
    /\ Ascending(ServiceName(manifest, 2), ServiceName(manifest, 1))
    /\ Len(containers) = 2

\* C8 as stated: with a service whose build field has neither shape, parsing
\* does not fail and every buildable service is in the catalog.
C8_Original ==
    (pc # "read_docker_compose" /\ manifest.exists /\ manifest.hasServices
        /\ \E i \in 1..Len(manifest.services) : IsNeitherShape(manifest, i)) =>
        /\ exit # "err"
        /\ \A i \in 1..Len(manifest.services) :
              (IsBuildable(manifest, i) /\ IsLastOfName(manifest, i))
                  => ServiceName(manifest, i) \in CatalogNames

\* C8, amended: with a service whose build field has neither shape the typed
\* parse of the whole manifest fails: read_docker_compose returns an error,
\* the process ends with an error, and there is no catalog, no diagnostic and
\* no output.
C8_NeitherShapeFailsParse ==
    (pc # "read_docker_compose"
        /\ \E i \in 1..Len(manifest.services) : IsNeitherShape(manifest, i)) =>
        /\ pc = "done" /\ exit = "err"
        /\ ~build_context.some
        /\ containers = <<>> /\ stderr = <<>> /\ stdout = <<>> /\ log = <<>>

\* C8 witness: a manifest with a service of neither shape and a buildable
\* service was read.
C8_Witness ==
    /\ pc = "done"
    /\ \E i, j \in 1..Len(manifest.services) :
          IsNeitherShape(manifest, i) /\ IsBuildable(manifest, j)

\* The restart policy of service i is one of the accepted two.
RestartAccepted(doc, i) ==
    LET r == GetKey(doc.services[i].body, "restart")
    IN  /\ r.some
        /\ r.v.t = "str"
        /\ r.v.s \in {<<97, 108, 119, 97, 121, 115>>,
                      <<117, 110, 108, 101, 115, 115, 45, 115, 116, 111, 112, 112, 101, 100>>}

\* The manifest with every service's restart policy set to "always".
WithRestartAlways(doc) ==
    [doc EXCEPT !.services =
        [i \in 1..Len(doc.services) |->
            LET body == doc.services[i].body
                r == KV("restart", VStr(<<97, 108, 119, 97, 121, 115>>))
            IN  [doc.services[i] EXCEPT !.body =
                    IF \E j \in 1..Len(body) : body[j].k = "restart"
                    THEN [j \in 1..Len(body) |-> IF body[j].k = "restart" THEN r ELSE body[j]]
                    ELSE Append(body, r)]]]

\* The typed parse of the manifest failed: main ended before read_dep.
ParseFailed == pc = "done" /\ ~build_context.some

\* C10: once the manifest was read, the parse has failed exactly if the parse
\* of the same manifest with every restart policy set to "always" fails;
\* when it has not, the catalog is the catalog of that manifest, and every
\* service (the last of its name) whose restart policy is absent or not
\* accepted has a diagnostic.
C10_RestartIsAdvisory ==
    pc # "read_docker_compose" =>
        LET always == WithRestartAlways(manifest)
        IN  /\ ParseFailed <=> ~(always.exists /\ DeDockerFile(always).ok)
            /\ ~ParseFailed =>
                  /\ \A ord \in IterationOrders(DeDockerFile(always).v.names) :
                        containers = from_docker_file(DeDockerFile(always).v, ord)
                  /\ \A i \in 1..Len(manifest.services) :
                        (IsLastOfName(manifest, i) /\ ~RestartAccepted(manifest, i)) =>
                            \E d \in 1..Len(stderr) :
                                stderr[d].service = ServiceName(manifest, i)

\* C10 witness: a buildable service without an accepted restart policy is in
\* the catalog and has its diagnostic.
C10_Witness ==
    /\ ParsedOk
    /\ \E i \in 1..Len(manifest.services) :
          /\ IsBuildable(manifest, i) /\ ~RestartAccepted(manifest, i)
          /\ ServiceName(manifest, i) \in CatalogNames
          /\ \E d \in 1..Len(stderr) : stderr[d].service = ServiceName(manifest, i)

\* The compose command has printed the rewritten manifest.
Printed == Len(stdout) = 1 /\ stdout[1].what = "compose"

\* The field names of a service body.
FieldNames(body) == {body[j].k : j \in 1..Len(body)}

\* C3: the rewritten manifest has the services of the source manifest, under
\* the same keys and in the same order; a service without a build field is
\* the same in both, entry for entry; and in every service each field other
\* than build and image is present in both or in neither, with the same
\* value.
C3_RewriteFrame ==
    Printed =>
        LET out == stdout[1].doc
        IN  /\ out.exists = manifest.exists /\ out.hasServices = manifest.hasServices
            /\ Len(out.services) = Len(manifest.services)
            /\ \A i \in 1..Len(manifest.services) :
                  /\ out.services[i].key = manifest.services[i].key
                  /\ ~HasBuildField(manifest, i) => out.services[i] = manifest.services[i]
                  /\ \A f \in (FieldNames(manifest.services[i].body)
                               \cup FieldNames(out.services[i].body)) \ {"build", "image"} :
                        GetKey(out.services[i].body, f) = GetKey(manifest.services[i].body, f)

\* C3 witness: a manifest with a service that was rewritten, which has fields
\* besides build and image, and a service without a build field.
C3_Witness ==
    /\ Printed
    /\ \E i, j \in 1..Len(manifest.services) :
          /\ i \in Rewritten(manifest)
          /\ FieldNames(manifest.services[i].body) \ {"build", "image", "restart"} # {}
          /\ ~HasBuildField(manifest, j)
          /\ stdout[1].doc.services[i] # manifest.services[i]

\* C4 as stated: after a successful rewrite every service that had a build
\* field has no build field and has the image registry/name:version of its
\* own name.
C4_Original ==
    Printed =>
        \A i \in 1..Len(manifest.services) :
            HasBuildField(manifest, i) =>
                /\ ~HasKey(stdout[1].doc.services[i].body, "build")
                /\ GetKey(stdout[1].doc.services[i].body, "image") =
                       Some(VStr(ImageRef(self.registry, ServiceName(manifest, i), self.version)))

\* C9 as stated: when a service with a build field has no catalog entry of
\* its name, the process does not crash, no rewritten manifest is printed or
\* transferred, and a run that rewrites the manifest does not end well.
C9_Original ==
    (pc # "read_docker_compose"
        /\ \E i \in 1..Len(manifest.services) :
              HasBuildField(manifest, i) /\ ServiceName(manifest, i) \notin CatalogNames) =>
        /\ exit # "panic"
        /\ \A j \in 1..Len(stdout) : stdout[j].what # "compose"
        /\ \A j \in 1..Len(log) : ~IsRsync(log[j])
        /\ exit = "ok" => cli.command \in {"Build", "Version"}

\* C11: in a run of the version or of the compose command no external
\* command of the pipeline (bash, docker, rsync, ssh) is ever run.
C11_VersionComposeRunNothing ==
    cli.command \in {"Version", "Compose"} => log = <<>>

\* C11 witness: a compose run over a catalog that is not empty has printed
\* the rewritten manifest and ended.
C11_Witness ==
    /\ cli.command = "Compose"
    /\ containers # <<>>
    /\ pc = "done" /\ exit = "ok" /\ Printed

\* The kind of an external command of the log.
KindOf(e) ==
    CASE e.prog = "bash" -> "script"
      [] IsBuild(e) -> "build"
      [] IsRegistryPush(e) -> "push"
      [] IsRsync(e) -> "rsync"
      [] e.prog = "ssh" /\ IsSshPull(e) -> "ssh_pull"
      [] OTHER -> "ssh_up"

\* n times the kind k.
Times(n, k) == [i \in 1..n |-> k]

\* The stages of the requested pipeline, as the kinds of the commands a
\* complete run of it makes: build = script, builds; push = build, pushes,
\* rsync (with --no-docker the rsync alone); deploy = push, remote pull (with
\* --pull), activation.
FullPipeline ==
    LET n == Len(containers)
        build == (IF depfile.config.build.some THEN <<"script">> ELSE <<>>)
                 \o Times(n, "build")
        push == IF cli.no_docker THEN <<"rsync">>
                ELSE build \o Times(n, "push") \o <<"rsync">>
    IN  CASE cli.command = "Build" -> build
          [] cli.command = "Push" -> push
          [] cli.command = "Deploy" ->
                push \o (IF cli.pull THEN <<"ssh_pull">> ELSE <<>>) \o <<"ssh_up">>
          [] OTHER -> <<>>

\* C12: the process has ended with exit code zero only if every command of
\* the requested pipeline was run, in order, and succeeded; a command that
\* failed is the last one the process ran, and the process has then ended
\* with a non-zero exit code; whatever was run is a prefix of the pipeline.
C12_ZeroOnlyAfterFullPipeline ==
    /\ exit = "ok" =>
          /\ Len(log) = Len(FullPipeline)
          /\ \A i \in 1..Len(log) : log[i].ok
    /\ Len(log) <= Len(FullPipeline)
    /\ \A i \in 1..Len(log) :
          /\ KindOf(log[i]) = FullPipeline[i]
          /\ ~log[i].ok => (i = Len(log) /\ pc = "done" /\ exit = "err")
    /\ (pc = "done") <=> (exit \in {"ok", "err", "panic"})

\* C12 witness: a deploy run with a script, --pull and a catalog of two has
\* ended after the activation failed.
C12_Witness ==
    /\ cli.command = "Deploy" /\ cli.pull
    /\ depfile.config.build.some
    /\ Len(containers) = 2
    /\ Len(log) = Len(FullPipeline)
    /\ ~log[Len(log)].ok
    /\ exit = "err"

\* Argument a is followed by argument b somewhere in argv.
HasArgPair(argv, a, b) == \E j \in 1..(Len(argv) - 1) : argv[j] = a /\ argv[j + 1] = b
HasArg(argv, a) == \E j \in 1..Len(argv) : argv[j] = a

\* C13 as stated: the k-th build of a run is the build of the k-th container
\* of the catalog and passes --build-arg VERSION=<version>, --pull exactly
\* when pull is set, the build context path, -f <file> when the descriptor
\* has a build file, and --target <target> when the descriptor has a target.
C13_Original ==
    \A i \in 1..Len(log) :
        IsBuild(log[i]) =>
            LET c == containers[BuildsUpTo(i)]
                argv == log[i].argv
            IN  /\ HasArgPair(argv, Lit("--build-arg"),
                              Txt(<<86, 69, 82, 83, 73, 79, 78, 61>> \o self.version))
                /\ HasArg(argv, Lit("--pull")) <=> cli.pull
                /\ HasArg(argv, Txt(c.build_dir))
                /\ c.dockerfile.some => HasArgPair(argv, Lit("-f"), Txt(c.dockerfile.v))
                /\ c.target.some => HasArgPair(argv, Lit("--target"), Txt(c.target.v))

\* C14: a registry push is run only in a push (without --no-docker) or
\* deploy run, after every container of the catalog was built with success;
\* the k-th push of a run pushes the image of the k-th container of the
\* catalog; a push that failed is the last command of the run, which has
\* ended with an error: no later image is pushed and nothing is transferred.
C14_PushAfterAllBuilds ==
    \A i \in 1..Len(log) :
        IsRegistryPush(log[i]) =>
            /\ cli.command \in {"Push", "Deploy"} /\ ~cli.no_docker
            /\ BuildsUpTo(i) = Len(containers)
            /\ \A k \in 1..Len(containers) :
                  \E j \in 1..(i - 1) :
                      /\ IsBuild(log[j]) /\ log[j].ok
                      /\ ImageArg(log[j]) =
                             ImageRef(self.registry, containers[k].name, self.version)
            /\ PushesUpTo(i) <= Len(containers)
            /\ ImageArg(log[i]) =
                   ImageRef(self.registry, containers[PushesUpTo(i)].name, self.version)
            /\ \A j \in 1..(i - 1) : IsRegistryPush(log[j]) => log[j].ok
            /\ ~log[i].ok =>
                  /\ i = Len(log)
                  /\ pc = "done" /\ exit = "err"
                  /\ \A j \in 1..Len(log) : ~IsRsync(log[j]) /\ log[j].prog # "ssh"

\* C14 witness: the first push of a catalog of two has failed.
C14_Witness ==
    /\ Len(containers) = 2
    /\ Len(log) > 0 /\ IsRegistryPush(log[Len(log)]) /\ ~log[Len(log)].ok
    /\ PushesUpTo(Len(log)) = 1

\* C15: bash is run only as the first command of a run whose configuration
\* has a build script; when it failed nothing else is run and the run has
\* ended with an error; a build is run only after the script, if one is
\* configured, has succeeded; without a script no bash is ever run.
C15_ScriptBeforeBuilds ==
    /\ \A i \in 1..Len(log) :
          /\ log[i].prog = "bash" =>
                /\ i = 1
                /\ depfile.config.build.some /\ log[i].input = depfile.config.build.v
                /\ ~log[i].ok => (Len(log) = 1 /\ pc = "done" /\ exit = "err")
          /\ (IsBuild(log[i]) /\ depfile.config.build.some) =>
                (i > 1 /\ log[1].prog = "bash" /\ log[1].ok)
    /\ ~depfile.config.build.some => \A i \in 1..Len(log) : log[i].prog # "bash"
    /\ (pc = "docker_build" /\ depfile.config.build.some) => Len(log) >= 1

\* C15 witness: the script of a build run over a catalog that is not empty
\* has failed.
C15_Witness ==
    /\ cli.command = "Build" /\ containers # <<>>
    /\ Len(log) = 1 /\ log[1].prog = "bash" /\ ~log[1].ok

\* The manifest or the configuration is missing or structurally invalid.
InputsInvalid ==
    \/ ~manifest.exists
    \/ ~manifest.hasServices
    \/ \E i \in 1..Len(manifest.services) : IsNeitherShape(manifest, i)
    \/ ~depfile.valid

\* C16: with a missing or invalid manifest or configuration the process
\* never gets past the reading of the two files: no BuildContext is made, no
\* external command is run, nothing is printed, and the process ends with
\* an error.
C16_InvalidInputsFailFirst ==
    InputsInvalid =>
        /\ pc \in {"read_docker_compose", "read_dep", "done"}
        /\ pc = "done" => exit = "err"
        /\ ~build_context.some
        /\ log = <<>> /\ stdout = <<>>

\* C16 witness: the manifest was read into a catalog, the configuration was
\* invalid, and the process has ended.
C16_Witness ==
    /\ ~depfile.valid
    /\ containers # <<>>
    /\ pc = "done" /\ exit = "err"

\* C17: with a manifest without a services section no rewritten manifest is
\* printed or transferred and no remote command is run; the process does not
\* crash, and a run that rewrites the manifest (compose, push, deploy) does
\* not end well.
C17_NoServicesFailsRewrite ==
    (manifest.exists /\ ~manifest.hasServices) =>
        /\ \A i \in 1..Len(log) : ~IsRsync(log[i]) /\ log[i].prog # "ssh"
        /\ \A i \in 1..Len(stdout) : stdout[i].what # "compose"
        /\ exit # "panic"
        /\ exit = "ok" => cli.command \in {"Build", "Version"}
        /\ (pc = "done" /\ cli.command \in {"Push", "Deploy", "Compose"}) => exit = "err"

\* C17 witness: in a deploy run every image was built and pushed, the
\* manifest read by the rewrite had no services section, and the run has
\* ended with an error.
C17_Witness ==
    /\ cli.command = "Deploy"
    /\ manifest.exists /\ ~manifest.hasServices
    /\ containers # <<>>
    /\ PushesUpTo(Len(log)) = Len(containers)
    /\ \A i \in 1..Len(log) : log[i].ok
    /\ pc = "done" /\ exit = "err"

\* The names of the services that have a restart diagnostic, and of the
\* services (the last of their name) whose restart policy is absent or not
\* accepted.
DiagnosedNames == {stderr[d].service : d \in 1..Len(stderr)}
UnacceptedNames ==
    {ServiceName(manifest, i) : i \in
        {j \in 1..Len(manifest.services) :
            IsLastOfName(manifest, j) /\ ~RestartAccepted(manifest, j)}}

\* C18, as stated: once the manifest was read, every restart diagnostic names
\* a service that has a build field.
C18_Original ==
    ParsedOk =>
        \A d \in 1..Len(stderr) :
            \E i \in 1..Len(manifest.services) :
                /\ IsLastOfName(manifest, i)
                /\ ServiceName(manifest, i) = stderr[d].service
                /\ HasBuildField(manifest, i)

\* C18, amended: once the manifest was read, the services with a restart
\* diagnostic are exactly the services whose restart policy is absent or not
\* accepted, with or without a build field, and each has one diagnostic.
C18_DiagnosticForEveryService ==
    ParsedOk =>
        /\ DiagnosedNames = UnacceptedNames
        /\ Len(stderr) = Cardinality(UnacceptedNames)

\* C18 witness: a service without a build field and without an accepted
\* restart policy was read and has a diagnostic.
C18_Witness ==
    /\ ParsedOk
    /\ \E i \in 1..Len(manifest.services) :
          /\ ~HasBuildField(manifest, i) /\ ~RestartAccepted(manifest, i)
          /\ ServiceName(manifest, i) \in DiagnosedNames

\* C19, as stated: for every manifest the typed parser accepts, the names of
\* the services with a build key (null values and non-string names
\* included) are the names of the catalog.
C19_Original ==
    ParsedOk =>
        {ServiceName(manifest, i) : i \in
            {j \in 1..Len(manifest.services) : HasBuildField(manifest, j)}} = CatalogNames

\* The image references of the commands among the first i of the log that
\* satisfy IsBuild, and of the registry pushes that succeeded.
BuiltRefs(i) == {ImageArg(log[j]) : j \in {k \in 1..i : IsBuild(log[k]) /\ log[k].ok}}
PushedRefs(i) ==
    {ImageArg(log[j]) : j \in {k \in 1..i : IsRegistryPush(log[k]) /\ log[k].ok}}

\* The image references the rewrite wrote into a staged manifest.
WrittenRefs(doc) ==
    {GetKey(doc.services[k].body, "image").v.s : k \in Rewritten(manifest)}

\* The image references of the catalog.
CatalogRefs ==
    {ImageRef(self.registry, containers[k].name, self.version) : k \in 1..Len(containers)}

=============================================================================
